---- MODULE Spec2Model ----
(***************************************************************************)
(* Chess coordinate trainer: the board (src/src/core/game_logic.py), the   *)
(* session statistics and the performance history (src/src/core/stats.py)  *)
(* and the ChessTrainer application that drives them from button, click    *)
(* and timer events (src/main.py); and ChessCoordinatesGame                *)
(* (src/chessboard.py), the same trainer written as one class.             *)
(*                                                                         *)
(* Times are whole numbers of clock ticks, TicksPerSecond to the second.    *)
(* Floats that the program derives by division (accuracy, average response *)
(* time) are kept as reduced fractions <<n,d>>.                            *)
(***************************************************************************)
EXTENDS Integers, Sequences, FiniteSets, Bags, TLC

VARIABLES
    board,                \* game_state.board: is_white_perspective, current_coordinate
    is_active,            \* game_state.is_active
    game_session,         \* ChessTrainer.game_session (GameSession)
    performance_tracker,  \* ChessTrainer.performance_tracker: the seven history lists
    duration,             \* ChessTrainer.duration      (created by start_game)
    time_left,            \* ChessTrainer.time_left     (created by start_game)
    last_coordinate_time, \* ChessTrainer.last_coordinate_time (created by start_game)
    coordinate_label,     \* text of ChessTrainer.coordinate_label
    pending,              \* number of update_timer callbacks queued by root.after
    now,                  \* time.time()
    fired,                \* queued update_timer callbacks run since the last start_game
    call,                 \* the handler or method that ran last, with its arguments and what it raised
    ret,                  \* what that method returned
    attempts,             \* bag of the record_attempt calls on game_session since its reset
    disk,                 \* the statistics file at the path given to save and load
    saved,                \* the history lists as they were when save_statistics last wrote the file
    last_loaded_timestamp, \* PerformanceTracker.last_loaded_timestamp (created by load_statistics)
    after_queue           \* ChessCoordinatesGame: the callbacks its root.after calls have queued, in the order they fall due

vars == <<board, is_active, game_session, performance_tracker, duration, time_left,
          last_coordinate_time, coordinate_label, pending, now, fired, call, ret,
          attempts, disk, saved, last_loaded_timestamp,
                   after_queue>>

----------------------------------------------------------------------------
(* Program constants *)

GRID_SIZE == 8
TILE_SIZE == 60
MIN_DURATION == 5
MAX_DURATION == 60
SLIDER_FROM == 5
SLIDER_TO == 60

(* float('inf'): larger than every response time the model produces *)
Inf == 1000000

(* Bounds of the model *)

MaxDuration == 5      \* the slider values tried are SLIDER_FROM..MaxDuration
MaxSessions == 2      \* start_game is pressed at most this many times
MaxClicks == 2        \* clicks counted over all sessions of a run
MaxClock == 1         \* ticks the clock advances
MaxDraw == 1          \* in the application runs the random draws are (file, rank) = (i, i+1), i <= MaxDraw
MaxCount == 5         \* click counters of a session handed to calculate_score
MaxTime == 6          \* seconds of response time of a session handed to calculate_score
TicksPerSecond == 256 \* resolution of the clock
MaxAttempts == 3      \* record_attempt calls made on a session between two resets
MaxAttemptTime == 2   \* ticks of response time handed to record_attempt
MaxHistory == 2       \* record_session calls made on a PerformanceTracker

None == <<>>

Cells == (0 .. GRID_SIZE - 1) \X (0 .. GRID_SIZE - 1)

----------------------------------------------------------------------------
(* Python helpers *)

Min(a, b) == IF a < b THEN a ELSE b
Max(a, b) == IF a > b THEN a ELSE b

RECURSIVE Gcd(_, _)
Gcd(a, b) == IF b = 0 THEN a ELSE Gcd(b, a % b)

(* the float n/d, n >= 0, d > 0 *)
Frac(n, d) == LET g == Gcd(n, d) IN <<n \div g, d \div g>>

(* int(): truncation toward zero of the float n/d, d > 0 *)
IntTrunc(n, d) == IF n >= 0 THEN n \div d ELSE -((-n) \div d)

Alphabet == <<"A", "B", "C", "D", "E", "F", "G", "H", "I", "J", "K", "L", "M",
              "N", "O", "P", "Q", "R", "S", "T", "U", "V", "W", "X", "Y", "Z">>

(* chr(ord('A') + i) for 0 <= i < 26 *)
ChrFromA(i) == Alphabet[i + 1]

DigitChars == <<"0", "1", "2", "3", "4", "5", "6", "7", "8", "9">>

(* str(n) for an integer n >= 0 *)
RECURSIVE Str(_)
Str(n) == IF n < 10 THEN DigitChars[n + 1]
          ELSE Str(n \div 10) \o DigitChars[(n % 10) + 1]

----------------------------------------------------------------------------
(* ChessBoardState *)

(* generate_coordinate with the rows counted from the bottom *)
generate_coordinate_rank_down(file, rank) ==
    LET algebraic == ChrFromA(file) \o Str(rank)
        screen_col == file
        screen_row == rank - 1
    IN  [current_coordinate |-> <<screen_col, screen_row>>,
         result |-> <<algebraic, screen_col, screen_row>>]

(* generate_coordinate that announces a coordinate without storing it *)
generate_coordinate_not_stored(file, rank) ==
    LET algebraic == ChrFromA(file) \o Str(rank)
        screen_col == file
        screen_row == GRID_SIZE - rank
    IN  [current_coordinate |-> None,
         result |-> <<algebraic, screen_col, screen_row>>]

(* generate_coordinate with the two random draws file and rank: the value  *)
(* returned and the target it stores.                                      *)
generate_coordinate(file, rank) ==
    LET algebraic == ChrFromA(file) \o Str(rank)
        screen_col == file
        screen_row == GRID_SIZE - rank
    IN  [current_coordinate |-> <<screen_col, screen_row>>,
         result |-> <<algebraic, screen_col, screen_row>>]

(* flip_perspective that always selects the black side *)
flip_perspective_to_black(b) ==
    [b EXCEPT !.is_white_perspective = FALSE]

flip_perspective(b) ==
    [b EXCEPT !.is_white_perspective = ~b.is_white_perspective]

(* validate_click that mirrors the column only *)
validate_click_column_only(b, click_x, click_y) ==
    IF b.current_coordinate = None
    THEN FALSE
    ELSE LET target_col == IF ~b.is_white_perspective
                           THEN GRID_SIZE - 1 - b.current_coordinate[1]
                           ELSE b.current_coordinate[1]
             target_row == b.current_coordinate[2]
         IN  <<click_x, click_y>> = <<target_col, target_row>>

validate_click(b, click_x, click_y) ==
    IF b.current_coordinate = None
    THEN FALSE
    ELSE LET target_col == IF ~b.is_white_perspective
                           THEN GRID_SIZE - 1 - b.current_coordinate[1]
                           ELSE b.current_coordinate[1]
             target_row == IF ~b.is_white_perspective
                           THEN GRID_SIZE - 1 - b.current_coordinate[2]
                           ELSE b.current_coordinate[2]
         IN  <<click_x, click_y>> = <<target_col, target_row>>

(* get_coordinate_notation that does not mirror the rank *)
get_coordinate_notation_unmirrored_rank(b, col, row) ==
    IF b.is_white_perspective
    THEN ChrFromA(col) \o Str(GRID_SIZE - row)
    ELSE ChrFromA(GRID_SIZE - 1 - col) \o Str(GRID_SIZE - row)

get_coordinate_notation(b, col, row) ==
    IF b.is_white_perspective
    THEN ChrFromA(col) \o Str(GRID_SIZE - row)
    ELSE ChrFromA(GRID_SIZE - 1 - col) \o Str(row + 1)

----------------------------------------------------------------------------
(* GameSession *)

(* reset that starts the fastest response at 0 *)
reset_fastest_zero ==
    [correct_clicks |-> 0, wrong_clicks |-> 0, total_response_time |-> 0,
     fastest_response |-> 0, slowest_response |-> 0]

reset ==
    [correct_clicks |-> 0, wrong_clicks |-> 0, total_response_time |-> 0,
     fastest_response |-> Inf, slowest_response |-> 0]

(* record_attempt that adds the time of a wrong attempt to the total *)
record_attempt_times_wrong(s, correct, response_time) ==
    IF correct
    THEN [s EXCEPT !.correct_clicks = @ + 1,
                   !.total_response_time = @ + response_time,
                   !.fastest_response = Min(@, response_time),
                   !.slowest_response = Max(@, response_time)]
    ELSE [s EXCEPT !.wrong_clicks = @ + 1,
                   !.total_response_time = @ + response_time]

(* record_attempt that keeps the last response time as the fastest *)
record_attempt_last_is_fastest(s, correct, response_time) ==
    IF correct
    THEN [s EXCEPT !.correct_clicks = @ + 1,
                   !.total_response_time = @ + response_time,
                   !.fastest_response = response_time,
                   !.slowest_response = Max(@, response_time)]
    ELSE [s EXCEPT !.wrong_clicks = @ + 1]

(* record_attempt that counts a correct attempt only *)
record_attempt_drops_time(s, correct, response_time) ==
    IF correct
    THEN [s EXCEPT !.correct_clicks = @ + 1]
    ELSE [s EXCEPT !.wrong_clicks = @ + 1]

record_attempt(s, correct, response_time) ==
    IF correct
    THEN [s EXCEPT !.correct_clicks = @ + 1,
                   !.total_response_time = @ + response_time,
                   !.fastest_response = Min(@, response_time),
                   !.slowest_response = Max(@, response_time)]
    ELSE [s EXCEPT !.wrong_clicks = @ + 1]

(* calculate_score that charges the penalties of a session without a      *)
(* correct click                                                           *)
calculate_score_penalty_only(s) ==
    IF s.correct_clicks = 0
    THEN -(s.wrong_clicks * 50)
    ELSE LET c == s.correct_clicks
             w == s.wrong_clicks
             T == s.total_response_time
             d == c * (c + w) * TicksPerSecond
         IN  IntTrunc(c * 100 * d + c * 100 * c * c * TicksPerSecond
                      + Max(0, (500 * c * TicksPerSecond - T * 100) * (c + w))
                      - w * 50 * d, d)

(* base + accuracy_bonus + speed_bonus - penalties over the common         *)
(* denominator c * (c + w) * TicksPerSecond, then int()                    *)
(* calculate_score that rounds down instead of truncating *)
calculate_score_floor(s) ==
    IF s.correct_clicks = 0
    THEN 0
    ELSE LET c == s.correct_clicks
             w == s.wrong_clicks
             T == s.total_response_time
             d == c * (c + w) * TicksPerSecond
         IN  (c * 100 * d + c * 100 * c * c * TicksPerSecond
              + Max(0, (500 * c * TicksPerSecond - T * 100) * (c + w))
              - w * 50 * d) \div d

(* calculate_score that never goes below zero *)
calculate_score_clamped(s) ==
    IF s.correct_clicks = 0
    THEN 0
    ELSE LET c == s.correct_clicks
             w == s.wrong_clicks
             T == s.total_response_time
             d == c * (c + w) * TicksPerSecond
         IN  Max(0, IntTrunc(c * 100 * d + c * 100 * c * c * TicksPerSecond
                             + Max(0, (500 * c * TicksPerSecond - T * 100) * (c + w))
                             - w * 50 * d, d))

(* calculate_score without the speed bonus *)
calculate_score_no_speed_bonus(s) ==
    IF s.correct_clicks = 0
    THEN 0
    ELSE LET c == s.correct_clicks
             w == s.wrong_clicks
             d == c * (c + w) * TicksPerSecond
         IN  IntTrunc(c * 100 * d + c * 100 * c * c * TicksPerSecond - w * 50 * d, d)

calculate_score(s) ==
    IF s.correct_clicks = 0
    THEN 0
    ELSE LET c == s.correct_clicks
             w == s.wrong_clicks
             T == s.total_response_time
             d == c * (c + w) * TicksPerSecond
             base_score == c * 100
             \* base_score * c / (c + w), over d
             accuracy_bonus_n == base_score * c * c * TicksPerSecond
             \* max(0, 500 - avg_response_time * 100), over d
             speed_n == Max(0, (500 * c * TicksPerSecond - T * 100) * (c + w))
             penalties == w * 50
         IN  IntTrunc(base_score * d + accuracy_bonus_n + speed_n - penalties * d, d)

calculate_accuracy(s) ==
    LET total_clicks == s.correct_clicks + s.wrong_clicks
    IN  IF total_clicks > 0 THEN Frac(s.correct_clicks * 100, total_clicks)
        ELSE Frac(0, 1)

calculate_avg_response_time(s) ==
    IF s.correct_clicks > 0 THEN Frac(s.total_response_time, s.correct_clicks)
    ELSE Frac(0, 1)

(* get_session_stats that reports fastest_response as it is stored *)
get_session_stats_stored_fastest(s) ==
    [score |-> calculate_score(s),
     correct |-> s.correct_clicks,
     wrong |-> s.wrong_clicks,
     accuracy |-> calculate_accuracy(s),
     avg_time |-> calculate_avg_response_time(s),
     fastest_response |-> s.fastest_response,
     slowest_response |-> s.slowest_response]

get_session_stats(s) ==
    [score |-> calculate_score(s),
     correct |-> s.correct_clicks,
     wrong |-> s.wrong_clicks,
     accuracy |-> calculate_accuracy(s),
     avg_time |-> calculate_avg_response_time(s),
     fastest_response |-> IF s.fastest_response # Inf THEN s.fastest_response ELSE 0,
     slowest_response |-> s.slowest_response]

----------------------------------------------------------------------------
(* GamePerformance.calculate_score (game_logic.py): the same formula with  *)
(* the GameConfig constants and max(1, c + w) as the accuracy denominator  *)

BASE_SCORE_PER_CORRECT == 100
PENALTY_PER_WRONG == 50
SPEED_BONUS_MAX == 500

(* GamePerformance.record_attempt *)
performance_record_attempt(s, is_correct, response_time) ==
    IF is_correct
    THEN [s EXCEPT !.correct_clicks = @ + 1,
                   !.total_response_time = @ + response_time,
                   !.fastest_response = Min(@, response_time),
                   !.slowest_response = Max(@, response_time)]
    ELSE [s EXCEPT !.wrong_clicks = @ + 1]

performance_calculate_score(s) ==
    IF s.correct_clicks = 0
    THEN 0
    ELSE LET c == s.correct_clicks
             w == s.wrong_clicks
             T == s.total_response_time
             t == Max(1, c + w)
             d == c * t * TicksPerSecond
             base_score == c * BASE_SCORE_PER_CORRECT
             accuracy_bonus_n == base_score * c * c * TicksPerSecond
             speed_n == Max(0, (SPEED_BONUS_MAX * c * TicksPerSecond - T * 100) * t)
             penalties == w * PENALTY_PER_WRONG
         IN  IntTrunc(base_score * d + accuracy_bonus_n + speed_n - penalties * d, d)

(* ChessCoordinatesGame.calculate_score without the penalty for wrong clicks *)
coordinates_game_calculate_score_no_penalty(g) ==
    IF g.correct_clicks = 0
    THEN 0
    ELSE LET c == g.correct_clicks
             w == g.wrong_clicks
             T == g.total_response_time
             t == Max(1, c + w)
             d == c * t * TicksPerSecond
             base_score == c * 100
             accuracy_bonus_n == base_score * c * c * TicksPerSecond
             speed_n == Max(0, (500 * c * TicksPerSecond - T * 100) * t)
         IN  IntTrunc(base_score * d + accuracy_bonus_n + speed_n, d)

(* ChessCoordinatesGame.calculate_score on the game's own counters: the    *)
(* accuracy is c / max(1, c + w), the constants are written out            *)
coordinates_game_calculate_score(g) ==
    IF g.correct_clicks = 0
    THEN 0
    ELSE LET c == g.correct_clicks
             w == g.wrong_clicks
             T == g.total_response_time
             t == Max(1, c + w)
             d == c * t * TicksPerSecond
             base_score == c * 100
             accuracy_bonus_n == base_score * c * c * TicksPerSecond
             speed_n == Max(0, (500 * c * TicksPerSecond - T * 100) * t)
             penalties == w * 50
         IN  IntTrunc(base_score * d + accuracy_bonus_n + speed_n - penalties * d, d)

----------------------------------------------------------------------------
(* PerformanceTracker *)

EmptyTracker ==
    [score_history |-> <<>>, accuracy_history |-> <<>>,
     correct_clicks_history |-> <<>>, wrong_clicks_history |-> <<>>,
     avg_time_history |-> <<>>, fastest_time_history |-> <<>>,
     slowest_time_history |-> <<>>]

(* record_session that puts the new entry in front of the earlier ones *)
record_session_prepends(t, score, session) ==
    [score_history |-> <<score>> \o t.score_history,
     accuracy_history |-> <<calculate_accuracy(session)>> \o t.accuracy_history,
     correct_clicks_history |-> <<session.correct_clicks>> \o t.correct_clicks_history,
     wrong_clicks_history |-> <<session.wrong_clicks>> \o t.wrong_clicks_history,
     avg_time_history |-> <<calculate_avg_response_time(session)>> \o t.avg_time_history,
     fastest_time_history |-> <<IF session.fastest_response # Inf
                                THEN session.fastest_response ELSE 0>>
                              \o t.fastest_time_history,
     slowest_time_history |-> <<session.slowest_response>> \o t.slowest_time_history]

(* record_session: one entry appended to each of the seven history lists *)
record_session(t, score, session) ==
    [score_history |-> Append(t.score_history, score),
     accuracy_history |-> Append(t.accuracy_history, calculate_accuracy(session)),
     correct_clicks_history |-> Append(t.correct_clicks_history, session.correct_clicks),
     wrong_clicks_history |-> Append(t.wrong_clicks_history, session.wrong_clicks),
     avg_time_history |-> Append(t.avg_time_history, calculate_avg_response_time(session)),
     fastest_time_history |-> Append(t.fastest_time_history,
         IF session.fastest_response # Inf THEN session.fastest_response ELSE 0),
     slowest_time_history |-> Append(t.slowest_time_history, session.slowest_response)]

HistoryFields == {"score_history", "accuracy_history", "correct_clicks_history",
                  "wrong_clicks_history", "avg_time_history", "fastest_time_history",
                  "slowest_time_history"}

----------------------------------------------------------------------------
(* The statistics file.  A file is absent or unreadable (NoFile), holds     *)
(* text that is not JSON, holds a JSON list, or holds a JSON object, whose  *)
(* members map a key to an array of number texts or, for the timestamp, to *)
(* one text.  A text is a sequence of characters.                          *)

(* what a call that returns normally raises *)
NoException == "no exception"

NoFile == [kind |-> "none"]
Malformed == [kind |-> "malformed"]
JsonList == [kind |-> "list"]

(* the decimal digits of n >= 0 *)
RECURSIVE Digits(_)
Digits(n) == IF n < 10 THEN <<DigitChars[n + 1]>>
             ELSE Append(Digits(n \div 10), DigitChars[(n % 10) + 1])

DigitValue(ch) == CHOOSE i \in 0 .. 9 : DigitChars[i + 1] = ch

RECURSIVE ParseDigits(_)
ParseDigits(txt) ==
    IF Len(txt) = 1 THEN DigitValue(txt[1])
    ELSE 10 * ParseDigits(SubSeq(txt, 1, Len(txt) - 1)) + DigitValue(txt[Len(txt)])

(* json.dump of an int *)
DumpInt(n) == IF n < 0 THEN <<"-">> \o Digits(-n) ELSE Digits(n)

(* json.dump of a float: repr, the text that reads back as the same float; *)
(* for the float n/d the model writes the reduced fraction                 *)
DumpFloat(f) == Digits(f[1]) \o <<"/">> \o Digits(f[2])

(* json.load of a number text *)
LoadNumber(txt) ==
    IF \E i \in 1 .. Len(txt) : txt[i] = "/"
    THEN LET i == CHOOSE j \in 1 .. Len(txt) : txt[j] = "/"
         IN  <<ParseDigits(SubSeq(txt, 1, i - 1)),
               ParseDigits(SubSeq(txt, i + 1, Len(txt)))>>
    ELSE IF txt[1] = "-" THEN -ParseDigits(Tail(txt))
    ELSE ParseDigits(txt)

DumpInts(q) == [i \in 1 .. Len(q) |-> DumpInt(q[i])]
DumpFloats(q) == [i \in 1 .. Len(q) |-> DumpFloat(q[i])]

(* json.dump of the dictionary save_statistics builds; the response times  *)
(* are whole ticks                                                         *)
json_dump(t, timestamp) ==
    [kind |-> "object",
     members |-> [score_history |-> DumpInts(t.score_history),
                  accuracy_history |-> DumpFloats(t.accuracy_history),
                  correct_clicks_history |-> DumpInts(t.correct_clicks_history),
                  wrong_clicks_history |-> DumpInts(t.wrong_clicks_history),
                  avg_time_history |-> DumpFloats(t.avg_time_history),
                  fastest_time_history |-> DumpInts(t.fastest_time_history),
                  slowest_time_history |-> DumpInts(t.slowest_time_history),
                  timestamp |-> DumpInt(timestamp)]]

(* json.load of a file that holds a JSON object: the dictionary *)
json_load(file) ==
    [k \in DOMAIN file.members |->
        IF k = "timestamp" THEN file.members[k]
        ELSE [i \in 1 .. Len(file.members[k]) |-> LoadNumber(file.members[k][i])]]

(* save_statistics: the file it leaves and the exception it raises; open   *)
(* fails when the path is not writable                                     *)
save_statistics(t, file, timestamp, writable) ==
    IF ~writable
    THEN [disk |-> file, raised |-> "IOError"]
    ELSE [disk |-> json_dump(t, timestamp), raised |-> NoException]

(* the order in which load_statistics assigns the history lists *)
LoadOrder == <<"score_history", "accuracy_history", "correct_clicks_history",
               "wrong_clicks_history", "avg_time_history", "fastest_time_history",
               "slowest_time_history">>

(* load_statistics that appends the lists of the file to the lists held *)
load_statistics_appends(t, timestamp, file) ==
    IF file.kind = "none"
    THEN [tracker |-> t, last_loaded_timestamp |-> timestamp, raised |-> "IOError"]
    ELSE IF file.kind = "malformed"
    THEN [tracker |-> t, last_loaded_timestamp |-> timestamp, raised |-> "ValueError"]
    ELSE IF file.kind = "list"
    THEN [tracker |-> t, last_loaded_timestamp |-> timestamp, raised |-> "TypeError"]
    ELSE LET stats_data == json_load(file)
             missing == {i \in 1 .. Len(LoadOrder) : LoadOrder[i] \notin DOMAIN stats_data}
             assigned == IF missing = {} THEN Len(LoadOrder)
                         ELSE (CHOOSE i \in missing : \A j \in missing : i <= j) - 1
             field(i) == IF i <= assigned THEN t[LoadOrder[i]] \o stats_data[LoadOrder[i]]
                         ELSE t[LoadOrder[i]]
         IN  [tracker |-> [score_history |-> field(1),
                           accuracy_history |-> field(2),
                           correct_clicks_history |-> field(3),
                           wrong_clicks_history |-> field(4),
                           avg_time_history |-> field(5),
                           fastest_time_history |-> field(6),
                           slowest_time_history |-> field(7)],
              last_loaded_timestamp |->
                  IF missing # {} THEN timestamp
                  ELSE IF "timestamp" \in DOMAIN stats_data
                       THEN stats_data["timestamp"] ELSE None,
              raised |-> IF missing = {} THEN NoException ELSE "ValueError"]

(* load_statistics: the tracker and the timestamp it leaves and the        *)
(* exception it raises.  The lists are assigned one after the other, so    *)
(* the KeyError of a missing key comes after the lists before it have been *)
(* assigned.                                                               *)
load_statistics(t, timestamp, file) ==
    IF file.kind = "none"
    THEN [tracker |-> t, last_loaded_timestamp |-> timestamp, raised |-> "IOError"]
    ELSE IF file.kind = "malformed"
    THEN [tracker |-> t, last_loaded_timestamp |-> timestamp, raised |-> "ValueError"]
    ELSE IF file.kind = "list"
    THEN [tracker |-> t, last_loaded_timestamp |-> timestamp, raised |-> "TypeError"]
    ELSE LET stats_data == json_load(file)
             missing == {i \in 1 .. Len(LoadOrder) : LoadOrder[i] \notin DOMAIN stats_data}
             assigned == IF missing = {} THEN Len(LoadOrder)
                         ELSE (CHOOSE i \in missing : \A j \in missing : i <= j) - 1
             field(i) == IF i <= assigned THEN stats_data[LoadOrder[i]]
                         ELSE t[LoadOrder[i]]
         IN  [tracker |-> [score_history |-> field(1),
                           accuracy_history |-> field(2),
                           correct_clicks_history |-> field(3),
                           wrong_clicks_history |-> field(4),
                           avg_time_history |-> field(5),
                           fastest_time_history |-> field(6),
                           slowest_time_history |-> field(7)],
              last_loaded_timestamp |->
                  IF missing # {} THEN timestamp
                  ELSE IF "timestamp" \in DOMAIN stats_data
                       THEN stats_data["timestamp"] ELSE None,
              raised |-> IF missing = {} THEN NoException ELSE "ValueError"]


----------------------------------------------------------------------------
(* ChessTrainer *)

Init ==
    /\ board = [is_white_perspective |-> TRUE, current_coordinate |-> None]
    /\ is_active = FALSE
    /\ game_session = reset
    /\ performance_tracker = EmptyTracker
    /\ duration = 0
    /\ time_left = 0
    /\ last_coordinate_time = 0
    /\ coordinate_label = "Click Start to begin"
    /\ pending = 0
    /\ now = 0
    /\ fired = 0
    /\ call = [op |-> "__init__"]
    /\ ret = None
    /\ attempts = EmptyBag
    /\ disk = NoFile
    /\ saved = None
    /\ last_loaded_timestamp = None
    /\ after_queue = <<>>

(* ChessTrainer.end_game: the state it leaves, as the values of            *)
(* is_active, coordinate_label and performance_tracker                     *)
end_game(session, tracker) ==
    LET final_stats == get_session_stats(session)
    IN  [is_active |-> FALSE,
         coordinate_label |-> "Game Over!",
         performance_tracker |-> record_session(tracker, final_stats.score, session)]

(* update_timer that counts down while time_left >= 0 *)
update_timer_off_by_one(tl, active, label, session, tracker) ==
    IF tl >= 0 /\ active
    THEN [time_left |-> tl - 1, queued |-> 1, is_active |-> active,
          coordinate_label |-> label, performance_tracker |-> tracker]
    ELSE LET e == end_game(session, tracker)
         IN  [time_left |-> tl, queued |-> 0, is_active |-> e.is_active,
              coordinate_label |-> e.coordinate_label,
              performance_tracker |-> e.performance_tracker]

(* update_timer that stops at zero without ending the game *)
update_timer_stops_silently(tl, active, label, session, tracker) ==
    IF tl > 0 /\ active
    THEN [time_left |-> tl - 1, queued |-> 1, is_active |-> active,
          coordinate_label |-> label, performance_tracker |-> tracker]
    ELSE [time_left |-> tl, queued |-> 0, is_active |-> active,
          coordinate_label |-> label, performance_tracker |-> tracker]

(* ChessTrainer.update_timer run with the given time_left and is_active:   *)
(* either it counts down and queues itself again, or it ends the game      *)
update_timer(tl, active, label, session, tracker) ==
    IF tl > 0 /\ active
    THEN [time_left |-> tl - 1, queued |-> 1, is_active |-> active,
          coordinate_label |-> label, performance_tracker |-> tracker]
    ELSE LET e == end_game(session, tracker)
         IN  [time_left |-> tl, queued |-> 0, is_active |-> e.is_active,
              coordinate_label |-> e.coordinate_label,
              performance_tracker |-> e.performance_tracker]

(* Start button: start_game, which ends by calling update_timer itself *)
StartGame(d, file, rank) ==
    /\ Len(performance_tracker.score_history) + pending < MaxSessions
    /\ LET g == generate_coordinate(file, rank)
           session == reset
           u == update_timer(d, TRUE, g.result[1], session, performance_tracker)
       IN  /\ duration' = d
           /\ game_session' = session
           /\ board' = [board EXCEPT !.current_coordinate = g.current_coordinate]
           /\ last_coordinate_time' = now
           /\ time_left' = u.time_left
           /\ is_active' = u.is_active
           /\ coordinate_label' = u.coordinate_label
           /\ performance_tracker' = u.performance_tracker
           /\ pending' = pending + u.queued
    /\ fired' = 0
    /\ attempts' = EmptyBag
    /\ call' = [op |-> "start_game"]
    /\ UNCHANGED <<now, ret, disk, saved, last_loaded_timestamp,
                   after_queue>>

(* a queued update_timer callback runs *)
TimerCallback ==
    /\ pending > 0
    /\ LET u == update_timer(time_left, is_active, coordinate_label,
                             game_session, performance_tracker)
       IN  /\ time_left' = u.time_left
           /\ is_active' = u.is_active
           /\ coordinate_label' = u.coordinate_label
           /\ performance_tracker' = u.performance_tracker
           /\ pending' = pending - 1 + u.queued
    /\ fired' = fired + 1
    /\ call' = [op |-> "update_timer"]
    /\ UNCHANGED <<board, game_session, duration, last_coordinate_time, now, ret,
                   attempts, disk, saved, last_loaded_timestamp,
                   after_queue>>

(* handle_board_click without the is_active test *)
handle_board_click_unguarded(active, b, session, label, lct, t, x, y, file, rank) ==
    IF validate_click(b, x, y)
    THEN LET g == generate_coordinate(file, rank)
         IN  [game_session |-> record_attempt(session, TRUE, t - lct),
              board |-> [b EXCEPT !.current_coordinate = g.current_coordinate],
              coordinate_label |-> g.result[1],
              last_coordinate_time |-> t]
    ELSE [game_session |-> record_attempt(session, FALSE, 0),
          board |-> b, coordinate_label |-> label, last_coordinate_time |-> lct]

(* handle_board_click that draws a new target after a wrong click too *)
handle_board_click_miss_moves_target(active, b, session, label, lct, t, x, y, file, rank) ==
    IF ~active
    THEN [game_session |-> session, board |-> b, coordinate_label |-> label,
          last_coordinate_time |-> lct]
    ELSE LET g == generate_coordinate(file, rank)
             moved == [b EXCEPT !.current_coordinate = g.current_coordinate]
         IN  IF validate_click(b, x, y)
             THEN [game_session |-> record_attempt(session, TRUE, t - lct),
                   board |-> moved, coordinate_label |-> g.result[1],
                   last_coordinate_time |-> t]
             ELSE [game_session |-> record_attempt(session, FALSE, 0),
                   board |-> moved, coordinate_label |-> g.result[1],
                   last_coordinate_time |-> t]

(* handle_board_click with the tile indices the canvas handler passes on:  *)
(* the values it leaves in game_session, board, coordinate_label and       *)
(* last_coordinate_time; file and rank are the draws of a new target       *)
handle_board_click(active, b, session, label, lct, t, x, y, file, rank) ==
    IF ~active
    THEN [game_session |-> session, board |-> b, coordinate_label |-> label,
          last_coordinate_time |-> lct]
    ELSE IF validate_click(b, x, y)
         THEN LET g == generate_coordinate(file, rank)
              IN  [game_session |-> record_attempt(session, TRUE, t - lct),
                   board |-> [b EXCEPT !.current_coordinate = g.current_coordinate],
                   coordinate_label |-> g.result[1],
                   last_coordinate_time |-> t]
         ELSE [game_session |-> record_attempt(session, FALSE, 0),
               board |-> b, coordinate_label |-> label, last_coordinate_time |-> lct]

(* clicks counted so far: in the running session and in the history *)
RECURSIVE SeqSum(_)
SeqSum(q) == IF q = <<>> THEN 0 ELSE Head(q) + SeqSum(Tail(q))

ClicksCounted ==
    game_session.correct_clicks + game_session.wrong_clicks
    + SeqSum(performance_tracker.correct_clicks_history)
    + SeqSum(performance_tracker.wrong_clicks_history)

(* the click handler *)
BoardClick(x, y, file, rank) ==
    /\ ClicksCounted < MaxClicks
    /\ LET h == handle_board_click(is_active, board, game_session, coordinate_label,
                                   last_coordinate_time, now, x, y, file, rank)
       IN  /\ game_session' = h.game_session
           /\ board' = h.board
           /\ coordinate_label' = h.coordinate_label
           /\ last_coordinate_time' = h.last_coordinate_time
    /\ attempts' = IF ~is_active THEN attempts
                   ELSE IF validate_click(board, x, y)
                        THEN attempts (+) SetToBag({<<TRUE, now - last_coordinate_time>>})
                        ELSE attempts (+) SetToBag({<<FALSE, 0>>})
    /\ call' = [op |-> "handle_board_click"]
    /\ UNCHANGED <<is_active, performance_tracker, duration, time_left, pending,
                   now, fired, ret, disk, saved, last_loaded_timestamp,
                   after_queue>>

(* Flip button *)
FlipBoard ==
    /\ board' = flip_perspective(board)
    /\ call' = [op |-> "flip_board"]
    /\ UNCHANGED <<is_active, game_session, performance_tracker, duration, time_left,
                   last_coordinate_time, coordinate_label, pending, now, fired, ret,
                   attempts, disk, saved, last_loaded_timestamp,
                   after_queue>>

(* a tick passes on the clock *)
Tick ==
    /\ now < MaxClock
    /\ now' = now + 1
    /\ UNCHANGED <<board, is_active, game_session, performance_tracker, duration,
                   time_left, last_coordinate_time, coordinate_label, pending, fired,
                   call, ret, attempts, disk, saved, last_loaded_timestamp,
                   after_queue>>

Durations == SLIDER_FROM .. MaxDuration
Draws == {<<i, i + 1>> : i \in 0 .. MaxDraw}

(* random.randint is called only by a click that validates: any other     *)
(* click is tried with one draw, which it does not use                     *)
DrawsAfter(c) ==
    IF is_active /\ validate_click(board, c[1], c[2]) THEN Draws ELSE {<<0, 1>>}

Next ==
    \/ \E d \in Durations, g \in Draws : StartGame(d, g[1], g[2])
    \/ TimerCallback
    \/ \E c \in Cells : \E g \in DrawsAfter(c) : BoardClick(c[1], c[2], g[1], g[2])
    \/ FlipBoard
    \/ Tick

Spec == Init /\ [][Next]_vars

----------------------------------------------------------------------------
(* ChessBoardState driven method by method, over the whole 8 x 8 board *)

(* the pixel positions the unit tests click for the target (col, row):     *)
(* inside its tile (test_game_logic.py:43-44, test_integration.py:22-23)   *)
(* and at the corner of the diagonally adjacent tile (test_game_logic.py:  *)
(* 48-49)                                                                  *)
PixelClicks(b) ==
    IF b.current_coordinate = None
    THEN {}
    ELSE LET col == b.current_coordinate[1]
             row == b.current_coordinate[2]
         IN  {<<col * TILE_SIZE + TILE_SIZE \div 2, row * TILE_SIZE + TILE_SIZE \div 2>>,
              <<col * TILE_SIZE + 5, row * TILE_SIZE + 5>>,
              <<(col + 1) * TILE_SIZE, (row + 1) * TILE_SIZE>>}

OffGrid == {<<-1, -1>>, <<GRID_SIZE, GRID_SIZE>>, <<-1, 0>>, <<0, GRID_SIZE>>}

ClickInputs(b) == Cells \cup OffGrid \cup PixelClicks(b)

UnchangedTrainer ==
    UNCHANGED <<is_active, game_session, performance_tracker, duration, time_left,
                last_coordinate_time, pending, now, fired, attempts, disk, saved,
                last_loaded_timestamp,
                   after_queue>>

(* generate_coordinate; the caller shows the notation (main.py:153-154) *)
BoardGenerate(file, rank) ==
    /\ LET g == generate_coordinate(file, rank)
       IN  /\ board' = [board EXCEPT !.current_coordinate = g.current_coordinate]
           /\ ret' = g.result
           /\ coordinate_label' = g.result[1]
    /\ call' = [op |-> "generate_coordinate"]
    /\ UnchangedTrainer

BoardFlip ==
    /\ board' = flip_perspective(board)
    /\ call' = [op |-> "flip_perspective"]
    /\ ret' = None
    /\ UNCHANGED coordinate_label
    /\ UnchangedTrainer

BoardValidate(x, y) ==
    /\ ret' = validate_click(board, x, y)
    /\ call' = [op |-> "validate_click", x |-> x, y |-> y]
    /\ UNCHANGED <<board, coordinate_label>>
    /\ UnchangedTrainer

BoardNotation(col, row) ==
    /\ ret' = get_coordinate_notation(board, col, row)
    /\ call' = [op |-> "get_coordinate_notation", col |-> col, row |-> row]
    /\ UNCHANGED <<board, coordinate_label>>
    /\ UnchangedTrainer

NextBoard ==
    \/ \E file \in 0 .. GRID_SIZE - 1, rank \in 1 .. GRID_SIZE : BoardGenerate(file, rank)
    \/ BoardFlip
    \/ \E p \in ClickInputs(board) : BoardValidate(p[1], p[2])
    \/ \E c \in Cells : BoardNotation(c[1], c[2])

SpecBoard == Init /\ [][NextBoard]_vars

----------------------------------------------------------------------------
(* calculate_score applied to sessions with arbitrary field values *)

(* the response times tried: the whole seconds up to MaxTime and the tick  *)
(* before each of them                                                     *)
ResponseTimes ==
    {sec * TicksPerSecond - e : sec \in 0 .. MaxTime, e \in 0 .. 1} \ {-1}

WholeSeconds == {sec * TicksPerSecond : sec \in 0 .. MaxTime}

Sessions ==
    [correct_clicks : 0 .. MaxCount, wrong_clicks : 0 .. MaxCount,
     total_response_time : ResponseTimes,
     fastest_response : WholeSeconds \cup {Inf},
     slowest_response : WholeSeconds]

InitScore ==
    /\ game_session \in Sessions
    /\ board = [is_white_perspective |-> TRUE, current_coordinate |-> None]
    /\ is_active = FALSE
    /\ performance_tracker = EmptyTracker
    /\ duration = 0
    /\ time_left = 0
    /\ last_coordinate_time = 0
    /\ coordinate_label = "Click Start to begin"
    /\ pending = 0
    /\ now = 0
    /\ fired = 0
    /\ call = [op |-> "__init__"]
    /\ ret = None
    /\ attempts = EmptyBag
    /\ disk = NoFile
    /\ saved = None
    /\ last_loaded_timestamp = None
    /\ after_queue = <<>>

UnchangedButResult ==
    UNCHANGED <<board, is_active, game_session, performance_tracker, duration, time_left,
                last_coordinate_time, coordinate_label, pending, now, fired, attempts,
                disk, saved, last_loaded_timestamp,
                   after_queue>>

SessionCalculateScore ==
    /\ ret' = calculate_score(game_session)
    /\ call' = [op |-> "GameSession.calculate_score"]
    /\ UnchangedButResult

PerformanceCalculateScore ==
    /\ ret' = performance_calculate_score(game_session)
    /\ call' = [op |-> "GamePerformance.calculate_score"]
    /\ UnchangedButResult

(* the same counters held by a ChessCoordinatesGame *)
CoordinatesGameCalculateScore ==
    /\ ret' = coordinates_game_calculate_score(game_session)
    /\ call' = [op |-> "ChessCoordinatesGame.calculate_score"]
    /\ UnchangedButResult

NextScore ==
    \/ SessionCalculateScore
    \/ PerformanceCalculateScore
    \/ CoordinatesGameCalculateScore

SpecScore == InitScore /\ [][NextScore]_vars

----------------------------------------------------------------------------
(* GameSession driven directly: reset, record_attempt with non-negative    *)
(* response times, get_session_stats                                       *)

AttemptTimes == 0 .. MaxAttemptTime

UnchangedButSession ==
    UNCHANGED <<board, is_active, performance_tracker, duration, time_left,
                last_coordinate_time, coordinate_label, pending, now, fired, disk, saved,
                last_loaded_timestamp,
                   after_queue>>

SessionReset ==
    /\ game_session' = reset
    /\ attempts' = EmptyBag
    /\ call' = [op |-> "reset"]
    /\ ret' = None
    /\ UnchangedButSession

SessionRecordAttempt(correct, response_time) ==
    /\ BagCardinality(attempts) < MaxAttempts
    /\ game_session' = record_attempt(game_session, correct, response_time)
    /\ attempts' = attempts (+) SetToBag({<<correct, response_time>>})
    /\ call' = [op |-> "record_attempt", correct |-> correct,
                response_time |-> response_time]
    /\ ret' = None
    /\ UnchangedButSession

(* the same attempt recorded by a GamePerformance that holds these counters *)
PerformanceRecordAttempt(is_correct, response_time) ==
    /\ BagCardinality(attempts) < MaxAttempts
    /\ game_session' = performance_record_attempt(game_session, is_correct, response_time)
    /\ attempts' = attempts (+) SetToBag({<<is_correct, response_time>>})
    /\ call' = [op |-> "GamePerformance.record_attempt", correct |-> is_correct,
                response_time |-> response_time]
    /\ ret' = None
    /\ UnchangedButSession

SessionGetStats ==
    /\ ret' = get_session_stats(game_session)
    /\ call' = [op |-> "get_session_stats"]
    /\ UNCHANGED <<game_session, attempts>>
    /\ UnchangedButSession

NextSession ==
    \/ SessionReset
    \/ \E correct \in BOOLEAN, t \in AttemptTimes : SessionRecordAttempt(correct, t)
    \/ \E correct \in BOOLEAN, t \in AttemptTimes : PerformanceRecordAttempt(correct, t)
    \/ SessionGetStats

SpecSession == Init /\ [][NextSession]_vars

----------------------------------------------------------------------------
(* PerformanceTracker driven directly: record_session, save_statistics and *)
(* load_statistics on one path, whose file the user may have put there     *)

(* sessions handed to record_session: without attempts, with a wrong       *)
(* attempt only, with a correct attempt only, with both                    *)
PlayedSessions ==
    {reset,
     record_attempt(reset, FALSE, 0),
     record_attempt(reset, TRUE, MaxAttemptTime),
     record_attempt(record_attempt(reset, TRUE, MaxAttemptTime), FALSE, 0)}

RECURSIVE WrongAttempts(_, _)
WrongAttempts(s, n) ==
    IF n = 0 THEN s ELSE WrongAttempts(record_attempt(s, FALSE, 0), n - 1)

(* the history an earlier run of the program saved: one session, of a      *)
(* correct click after 4 seconds and 5 wrong clicks, with the score -33    *)
EarlierHistory ==
    LET session == WrongAttempts(record_attempt(reset, TRUE, 4 * TicksPerSecond), 5)
    IN  record_session(EmptyTracker, calculate_score(session), session)

EarlierFile == json_dump(EarlierHistory, 0)

(* the file without one of its members *)
Without(file, key) ==
    [file EXCEPT !.members = [k \in DOMAIN file.members \ {key} |-> file.members[k]]]

(* the files that may lie at the path before the program writes it: none,  *)
(* no JSON, a JSON list, a saved history, the same with a member removed,  *)
(* and one whose score list is longer than its other lists                 *)
FilesFound ==
    {NoFile, Malformed, JsonList, EarlierFile}
    \cup {Without(EarlierFile, key) : key \in HistoryFields \cup {"timestamp"}}
    \cup {[EarlierFile EXCEPT !.members.score_history = Append(@, DumpInt(0))]}

InitTracker ==
    /\ disk \in FilesFound
    /\ board = [is_white_perspective |-> TRUE, current_coordinate |-> None]
    /\ is_active = FALSE
    /\ game_session = reset
    /\ performance_tracker = EmptyTracker
    /\ duration = 0
    /\ time_left = 0
    /\ last_coordinate_time = 0
    /\ coordinate_label = "Click Start to begin"
    /\ pending = 0
    /\ now = 0
    /\ fired = 0
    /\ call = [op |-> "__init__"]
    /\ ret = None
    /\ attempts = EmptyBag
    /\ saved = None
    /\ last_loaded_timestamp = None
    /\ after_queue = <<>>

UnchangedButTracker ==
    UNCHANGED <<board, is_active, game_session, duration, time_left,
                last_coordinate_time, coordinate_label, pending, now, fired, attempts,
                after_queue>>

(* the end of a session as end_game performs it (main.py:196-204): the     *)
(* summary of the session is taken and the session is recorded with the    *)
(* score of the summary                                                    *)
TrackerRecordSession(session) ==
    /\ \A f \in HistoryFields : Len(performance_tracker[f]) < MaxHistory
    /\ LET final_stats == get_session_stats(session)
       IN  /\ performance_tracker' =
                  record_session(performance_tracker, final_stats.score, session)
           /\ ret' = final_stats
    /\ call' = [op |-> "record_session", session |-> session]
    /\ UNCHANGED <<disk, saved, last_loaded_timestamp,
                   after_queue>>
    /\ UnchangedButTracker

(* a new PerformanceTracker, as the next run of the program creates it;   *)
(* the file stays                                                          *)
TrackerNew ==
    /\ performance_tracker' = EmptyTracker
    /\ last_loaded_timestamp' = None
    /\ call' = [op |-> "__init__"]
    /\ ret' = None
    /\ UNCHANGED <<disk, saved>>
    /\ UnchangedButTracker

TrackerSave(writable) ==
    /\ LET r == save_statistics(performance_tracker, disk, now, writable)
       IN  /\ disk' = r.disk
           /\ saved' = IF r.raised = NoException THEN performance_tracker ELSE saved
           /\ call' = [op |-> "save_statistics", raised |-> r.raised]
    /\ ret' = None
    /\ UNCHANGED <<performance_tracker, last_loaded_timestamp,
                   after_queue>>
    /\ UnchangedButTracker

TrackerLoad ==
    /\ LET r == load_statistics(performance_tracker, last_loaded_timestamp, disk)
       IN  /\ performance_tracker' = r.tracker
           /\ last_loaded_timestamp' = r.last_loaded_timestamp
           /\ call' = [op |-> "load_statistics", raised |-> r.raised,
                       held |-> Len(performance_tracker.score_history)]
    /\ ret' = None
    /\ UNCHANGED <<disk, saved>>
    /\ UnchangedButTracker

NextTracker ==
    \/ TrackerNew
    \/ \E session \in PlayedSessions : TrackerRecordSession(session)
    \/ \E writable \in BOOLEAN : TrackerSave(writable)
    \/ TrackerLoad

SpecTracker == InitTracker /\ [][NextTracker]_vars

----------------------------------------------------------------------------
(* ChessTrainer with its statistics buttons and with any value of the      *)
(* duration variable.  get_duration returns duration_var.get() unchecked   *)
(* (components.py:491-498) and start_game uses what it returns             *)
(* (main.py:148,157); the slider offers SLIDER_FROM .. SLIDER_TO, the       *)
(* variable itself holds whatever it was set to.                           *)

RequestedDurations == {0 - 1, 0} \cup Durations

InitTrainer ==
    /\ board = [is_white_perspective |-> TRUE, current_coordinate |-> None]
    /\ is_active = FALSE
    /\ game_session = reset
    /\ performance_tracker = EmptyTracker
    /\ duration = 0
    /\ time_left = 0
    /\ last_coordinate_time = 0
    /\ coordinate_label = "Click Start to begin"
    /\ pending = 0
    /\ now = 0
    /\ fired = 0
    /\ call = [op |-> "__init__"]
    /\ ret = None
    /\ attempts = EmptyBag
    /\ disk = EarlierFile
    /\ saved = None
    /\ last_loaded_timestamp = None
    /\ after_queue = <<>>

(* unload_statistics: the tracker and the session it leaves and the        *)
(* exception its try block caught.  PerformanceTracker has no method       *)
(* reset_statistics (stats.py:111-468), so the first statement of the try  *)
(* block raises AttributeError and the handler only shows an error box.    *)
unload_statistics(tracker, session, confirmed) ==
    IF ~confirmed
    THEN [performance_tracker |-> tracker, game_session |-> session,
          raised |-> NoException]
    ELSE [performance_tracker |-> tracker, game_session |-> session,
          raised |-> "AttributeError"]

(* Unload button, with the answer given to the askokcancel box *)
UnloadStatistics(confirmed) ==
    /\ LET r == unload_statistics(performance_tracker, game_session, confirmed)
       IN  /\ performance_tracker' = r.performance_tracker
           /\ game_session' = r.game_session
           /\ call' = [op |-> "unload_statistics", confirmed |-> confirmed,
                       raised |-> r.raised]
    /\ UNCHANGED <<board, is_active, duration, time_left, last_coordinate_time,
                   coordinate_label, pending, now, fired, ret, attempts, disk, saved,
                   last_loaded_timestamp,
                   after_queue>>

(* Load button: ChessTrainer.load_statistics passes the file chosen in the *)
(* dialog, here the history an earlier run saved, to                       *)
(* PerformanceTracker.load_statistics and shows a box for what it raised   *)
LoadStatistics ==
    /\ LET r == load_statistics(performance_tracker, last_loaded_timestamp, disk)
       IN  /\ performance_tracker' = r.tracker
           /\ last_loaded_timestamp' = r.last_loaded_timestamp
           /\ call' = [op |-> "load_statistics", raised |-> r.raised]
    /\ UNCHANGED <<board, is_active, game_session, duration, time_left,
                   last_coordinate_time, coordinate_label, pending, now, fired, ret,
                   attempts, disk, saved, after_queue>>

NextTrainer ==
    \/ \E d \in RequestedDurations, g \in Draws : StartGame(d, g[1], g[2])
    \/ TimerCallback
    \/ \E c \in Cells : \E g \in DrawsAfter(c) : BoardClick(c[1], c[2], g[1], g[2])
    \/ FlipBoard
    \/ \E confirmed \in BOOLEAN : UnloadStatistics(confirmed)
    \/ LoadStatistics

SpecTrainer == InitTrainer /\ [][NextTrainer]_vars

----------------------------------------------------------------------------
(* ChessTrainer under Tk's event loop.  root.mainloop (main.py:370-372)     *)
(* runs every callback queued with root.after once its delay has passed,   *)
(* so a queued update_timer callback is not left waiting forever: weak     *)
(* fairness of TimerCallback.  Button presses and clicks are the user's    *)
(* and carry no fairness; StartGame's guard makes the starts finite.       *)

NextLive ==
    \/ \E d \in Durations, g \in Draws : StartGame(d, g[1], g[2])
    \/ TimerCallback
    \/ \E c \in Cells : \E g \in DrawsAfter(c) : BoardClick(c[1], c[2], g[1], g[2])
    \/ FlipBoard

SpecLive == Init /\ [][NextLive]_vars /\ WF_vars(TimerCallback)

----------------------------------------------------------------------------
(* ChessCoordinatesGame (chessboard.py), the single-class version of the    *)
(* trainer.  It keeps under the same names what ChessTrainer spreads over  *)
(* its components, and the model keeps it in the same variables:           *)
(* is_white_perspective and current_coordinate in board, is_game_active in *)
(* is_active, the five counters in game_session, the seven history lists   *)
(* in performance_tracker, duration_var in duration, the text of           *)
(* coord_label in coordinate_label.  The time_left of start_timer is a     *)
(* local of each call, held by the update_timer closure queued for it.     *)

(* root.after(1000, update_timer) with the closure's time_left: due later   *)
(* than every callback already queued                                      *)
after_update_timer(queue, tl) ==
    Append(queue, [fn |-> "update_timer", time_left |-> tl])

(* the places in the queue where a callback due in 100 ms can fall: after  *)
(* every show_final_results queued before it, before or after any          *)
(* update_timer of another chain, which falls due within the second        *)
ShowPositions(queue) ==
    {p \in 0 .. Len(queue) :
        \A i \in p + 1 .. Len(queue) : queue[i].fn # "show_final_results"}

(* root.after(100, self.show_final_results); expired notes the counters as *)
(* they are when the countdown expires                                     *)
after_show_final_results(queue, p, counters) ==
    SubSeq(queue, 1, p)
    \o <<[fn |-> "show_final_results", expired |-> counters]>>
    \o SubSeq(queue, p + 1, Len(queue))

(* the closure update_timer of start_timer, run with its time_left: the    *)
(* queue, is_game_active and the label it leaves                           *)
game_update_timer(tl, queue, p, active, label, counters) ==
    IF tl > 0
    THEN [after_queue |-> after_update_timer(queue, tl - 1),
          is_active |-> active, coordinate_label |-> label]
    ELSE [after_queue |-> after_show_final_results(queue, p, counters),
          is_active |-> FALSE, coordinate_label |-> "Game Over!"]

(* check_coordinate with the pixel position of the click; file and rank    *)
(* are the draws of update_random_coordinate                               *)
check_coordinate(active, b, counters, label, lct, t, x, y, file, rank) ==
    IF b.current_coordinate = None \/ ~active
    THEN [game_session |-> counters, board |-> b, coordinate_label |-> label,
          last_coordinate_time |-> lct]
    ELSE LET raw_clicked_col == x \div TILE_SIZE
             raw_clicked_row == y \div TILE_SIZE
             target_col == IF ~b.is_white_perspective
                           THEN GRID_SIZE - 1 - b.current_coordinate[1]
                           ELSE b.current_coordinate[1]
             target_row == IF ~b.is_white_perspective
                           THEN GRID_SIZE - 1 - b.current_coordinate[2]
                           ELSE b.current_coordinate[2]
             response_time == t - lct
             g == generate_coordinate(file, rank)
         IN  IF <<raw_clicked_col, raw_clicked_row>> = <<target_col, target_row>>
             THEN [game_session |->
                       [counters EXCEPT !.correct_clicks = @ + 1,
                                        !.total_response_time = @ + response_time,
                                        !.fastest_response = Min(@, response_time),
                                        !.slowest_response = Max(@, response_time)],
                   board |-> [b EXCEPT !.current_coordinate = <<g.result[2], g.result[3]>>],
                   coordinate_label |-> g.result[1],
                   last_coordinate_time |-> t]
             ELSE [game_session |-> [counters EXCEPT !.wrong_clicks = @ + 1],
                   board |-> b, coordinate_label |-> label,
                   last_coordinate_time |-> lct]

(* the seven values show_final_results computes from the counters *)
final_results(counters) ==
    LET total_clicks == counters.correct_clicks + counters.wrong_clicks
    IN  [score_history |-> coordinates_game_calculate_score(counters),
         accuracy_history |->
             IF total_clicks > 0 THEN Frac(counters.correct_clicks * 100, total_clicks)
             ELSE Frac(0, 1),
         correct_clicks_history |-> counters.correct_clicks,
         wrong_clicks_history |-> counters.wrong_clicks,
         avg_time_history |->
             IF counters.correct_clicks > 0
             THEN Frac(counters.total_response_time, counters.correct_clicks)
             ELSE Frac(0, 1),
         fastest_time_history |->
             IF counters.fastest_response # Inf THEN counters.fastest_response ELSE 0,
         slowest_time_history |-> counters.slowest_response]

(* show_final_results: the history lists after it has appended the values  *)
(* it computes from the counters as they are when it runs                  *)
show_final_results(histories, counters) ==
    [f \in HistoryFields |-> Append(histories[f], final_results(counters)[f])]

(* Start button: start_timer, which ends by calling its update_timer *)
StartTimer(d, file, rank) ==
    /\ Len(performance_tracker.score_history) + Len(after_queue) < MaxSessions
    /\ LET g == generate_coordinate(file, rank)
           u == game_update_timer(d, after_queue, Len(after_queue), TRUE,
                                  g.result[1], reset)
       IN  /\ game_session' = reset
           /\ board' = [board EXCEPT !.current_coordinate = <<g.result[2], g.result[3]>>]
           /\ last_coordinate_time' = now
           /\ duration' = d
           /\ after_queue' = u.after_queue
           /\ is_active' = u.is_active
           /\ coordinate_label' = u.coordinate_label
    /\ call' = [op |-> "start_timer"]
    /\ UNCHANGED <<performance_tracker, time_left, pending, now, fired, ret, attempts,
                   disk, saved, last_loaded_timestamp>>

(* the callback that falls due first runs: an update_timer closure or      *)
(* show_final_results                                                      *)
GameCallback(p) ==
    /\ after_queue # <<>>
    /\ LET cb == Head(after_queue)
           rest == Tail(after_queue)
       IN  IF cb.fn = "update_timer"
           THEN /\ p \in ShowPositions(rest)
                /\ cb.time_left > 0 => p = Len(rest)
                /\ LET u == game_update_timer(cb.time_left, rest, p, is_active,
                                              coordinate_label, game_session)
                   IN  /\ after_queue' = u.after_queue
                       /\ is_active' = u.is_active
                       /\ coordinate_label' = u.coordinate_label
                /\ call' = [op |-> "update_timer"]
                /\ UNCHANGED performance_tracker
           ELSE /\ p = 0
                /\ after_queue' = rest
                /\ performance_tracker' =
                       show_final_results(performance_tracker, game_session)
                /\ call' = [op |-> "show_final_results", expired |-> cb.expired]
                /\ UNCHANGED <<is_active, coordinate_label>>
    /\ UNCHANGED <<board, game_session, duration, time_left, last_coordinate_time,
                   pending, now, fired, ret, attempts, disk, saved,
                   last_loaded_timestamp>>

(* a click on the canvas at pixel (x, y) *)
CanvasClick(x, y, file, rank) ==
    /\ ClicksCounted < MaxClicks
    /\ LET h == check_coordinate(is_active, board, game_session, coordinate_label,
                                 last_coordinate_time, now, x, y, file, rank)
       IN  /\ game_session' = h.game_session
           /\ board' = h.board
           /\ coordinate_label' = h.coordinate_label
           /\ last_coordinate_time' = h.last_coordinate_time
    /\ call' = [op |-> "check_coordinate"]
    /\ UNCHANGED <<is_active, performance_tracker, duration, time_left, pending, now,
                   fired, ret, attempts, disk, saved, last_loaded_timestamp,
                   after_queue>>

(* Flip Board button of the game *)
GameFlipBoard ==
    /\ board' = [board EXCEPT !.is_white_perspective = ~board.is_white_perspective]
    /\ call' = [op |-> "flip_board"]
    /\ UNCHANGED <<is_active, game_session, performance_tracker, duration, time_left,
                   last_coordinate_time, coordinate_label, pending, now, fired, ret,
                   attempts, disk, saved, last_loaded_timestamp, after_queue>>

(* the pixel at the middle of each tile *)
TileCentres ==
    {<<c[1] * TILE_SIZE + TILE_SIZE \div 2, c[2] * TILE_SIZE + TILE_SIZE \div 2>> :
        c \in Cells}

(* random.randint is called only by a click that hits the target *)
GameDrawsAfter(c) ==
    IF is_active /\ validate_click(board, c[1] \div TILE_SIZE, c[2] \div TILE_SIZE)
    THEN Draws ELSE {<<0, 1>>}

NextGame ==
    \/ \E d \in Durations, g \in Draws : StartTimer(d, g[1], g[2])
    \/ \E p \in 0 .. MaxSessions : GameCallback(p)
    \/ \E c \in TileCentres : \E g \in GameDrawsAfter(c) : CanvasClick(c[1], c[2], g[1], g[2])
    \/ GameFlipBoard
    \/ Tick

SpecGame == Init /\ [][NextGame]_vars

----------------------------------------------------------------------------
(* Properties *)

HistoryLen(t) == [f \in HistoryFields |-> Len(t[f])]

(* C1: one session appends exactly one history entry.  Every history list  *)
(* grows by exactly one on the step that returns the game to idle, does    *)
(* not grow on a step that leaves the game active (a restart included),    *)
(* and never grows on a step taken while the game is idle.                 *)
C1_OneEntryPerSession ==
    [][ /\ (~is_active =>
               HistoryLen(performance_tracker') = HistoryLen(performance_tracker))
        /\ (is_active /\ is_active' =>
               HistoryLen(performance_tracker') = HistoryLen(performance_tracker))
        /\ (is_active /\ ~is_active' =>
               \A f \in HistoryFields :
                   Len(performance_tracker'[f]) = Len(performance_tracker[f]) + 1)
      ]_vars

(* C2 as stated: a session stays active until duration queued callbacks    *)
(* have run, every callback of the session decreases time_left by exactly  *)
(* 1, and 0 <= time_left <= duration.                                      *)
C2_EveryCallbackCountsDown ==
    /\ [](0 <= time_left /\ time_left <= duration)
    /\ [](duration >= 1 => (is_active <=> fired < duration))
    /\ [][(is_active /\ call'.op = "update_timer" /\ fired' = fired + 1)
             => time_left' = time_left - 1]_vars

(* C2, amended: counting the queued callbacks run since start_game, the    *)
(* session is active exactly while fewer than duration of them have run;   *)
(* start_game's own update_timer call and each of the first duration - 1   *)
(* callbacks take 1 off time_left, the last one finds it 0, leaves it 0    *)
(* and ends the game; 0 <= time_left <= duration throughout.               *)
C2_Countdown ==
    /\ 0 <= time_left /\ time_left <= duration
    /\ duration >= 1 =>
          /\ is_active <=> fired < duration
          /\ is_active => time_left = duration - 1 - fired
          /\ (~is_active /\ fired = duration) =>
                 /\ time_left = 0
                 /\ Len(performance_tracker.score_history) >= 1

C2_Witness ==
    /\ duration >= 1
    /\ ~is_active
    /\ fired = duration
    /\ pending = 0
    /\ call.op = "update_timer"
    /\ Len(performance_tracker.score_history) = 1

SessionIsReset ==
    /\ game_session.correct_clicks = 0
    /\ game_session.wrong_clicks = 0
    /\ game_session.total_response_time = 0
    /\ game_session.fastest_response = Inf
    /\ game_session.slowest_response = 0

(* C3 as stated: start_game leaves the session statistics reset, the game  *)
(* active, a target set and time_left equal to the chosen duration.        *)
C3_StartLeavesFullDuration ==
    call.op = "start_game" =>
        /\ SessionIsReset
        /\ is_active
        /\ board.current_coordinate # None
        /\ time_left = duration

(* C3, amended: start_game, in any state, leaves the session statistics    *)
(* reset, the game active, a target set, and time_left one below the       *)
(* chosen duration, its own update_timer call having counted down once and *)
(* queued the next callback.                                               *)
C3_StartResets ==
    call.op = "start_game" =>
        /\ SessionIsReset
        /\ is_active
        /\ board.current_coordinate \in Cells
        /\ duration \in Durations
        /\ time_left = duration - 1
        /\ pending >= 1

(* a restart: start_game run while a session was active, so that two       *)
(* callbacks are queued                                                    *)
C3_Witness ==
    /\ call.op = "start_game"
    /\ pending = 2
    /\ is_active
    /\ time_left = duration - 1
    /\ SessionIsReset

ClickStep == \E c \in Cells : \E g \in DrawsAfter(c) : BoardClick(c[1], c[2], g[1], g[2])

(* C4: a click delivered while the game is idle changes neither the        *)
(* session statistics, nor the target, nor the perspective, nor any        *)
(* history list.                                                           *)
C4_IdleClickIsNoOp ==
    [][(~is_active /\ ClickStep) =>
          UNCHANGED <<game_session, board, performance_tracker>>]_vars

(* a click handled in the idle state that follows a finished session *)
C4_Witness ==
    /\ call.op = "handle_board_click"
    /\ ~is_active
    /\ Len(performance_tracker.score_history) >= 1
    /\ board.current_coordinate # None

(* the cell that shows the target: the target itself for white, mirrored   *)
(* in both axes for black                                                  *)
ShownAt(b) ==
    IF b.is_white_perspective
    THEN b.current_coordinate
    ELSE <<7 - b.current_coordinate[1], 7 - b.current_coordinate[2]>>

C6_PixelClickValidates ==
    (/\ call.op = "validate_click"
     /\ board.is_white_perspective
     /\ board.current_coordinate # None) =>
        LET col == board.current_coordinate[1]
            row == board.current_coordinate[2]
        IN  /\ (<<call.x, call.y>> = <<col * TILE_SIZE + TILE_SIZE \div 2,
                                       row * TILE_SIZE + TILE_SIZE \div 2>>) => ret = TRUE
            /\ (<<call.x, call.y>> = <<(col + 1) * TILE_SIZE,
                                       (row + 1) * TILE_SIZE>>) => ret = FALSE

(* C7: generate_coordinate returns (notation, col, row) with col and row   *)
(* in 0..7, the notation being the letter 'A'+col followed by the digit of *)
(* rank = 8 - row, 1 <= rank <= 8, and stores (col, row) as the target.    *)
C7_GenerateCoordinate ==
    call.op = "generate_coordinate" =>
        LET notation == ret[1]
            col == ret[2]
            row == ret[3]
            rank == 8 - row
        IN  /\ Len(ret) = 3
            /\ col \in 0 .. 7
            /\ row \in 0 .. 7
            /\ rank \in 1 .. 8
            /\ notation = <<"A", "B", "C", "D", "E", "F", "G", "H">>[col + 1]
                          \o <<"1", "2", "3", "4", "5", "6", "7", "8">>[rank]
            /\ board.current_coordinate = <<col, row>>

C7_Witness ==
    /\ call.op = "generate_coordinate"
    /\ ret = <<"E4", 4, 4>>
    /\ board.current_coordinate = <<4, 4>>
    /\ ~board.is_white_perspective

(* C8: whenever a target is set, under either perspective, every cell that *)
(* validate_click accepts is a cell whose get_coordinate_notation is the   *)
(* notation generate_coordinate announced; and under white perspective     *)
(* get_coordinate_notation inverts generation on all 64 cells, (0, 0)      *)
(* being A8.                                                               *)
C8_AcceptedCellIsAnnounced ==
    /\ board.current_coordinate # None =>
          /\ \E c \in Cells : validate_click(board, c[1], c[2])
          /\ \A c \in Cells :
                 validate_click(board, c[1], c[2]) =>
                     get_coordinate_notation(board, c[1], c[2]) = coordinate_label
    /\ call.op = "get_coordinate_notation" /\ board.is_white_perspective =>
          /\ \E file \in 0 .. 7, rank \in 1 .. 8 :
                 generate_coordinate(file, rank).result = <<ret, call.col, call.row>>
          /\ (<<call.col, call.row>> = <<0, 0>> => ret = "A8")

C8_Witness ==
    /\ call.op = "validate_click"
    /\ ret = TRUE
    /\ ~board.is_white_perspective
    /\ board.current_coordinate = <<0, 0>>
    /\ coordinate_label = "A8"
    /\ <<call.x, call.y>> = <<7, 7>>

(* C9: flip_perspective toggles the perspective and changes nothing else,  *)
(* the target included; flipping twice gives back the board it started     *)
(* from.                                                                   *)
C9_FlipPerspective ==
    /\ [][call'.op = "flip_perspective" =>
             /\ board'.is_white_perspective = ~board.is_white_perspective
             /\ board'.current_coordinate = board.current_coordinate
             /\ DOMAIN board' = DOMAIN board
             /\ UNCHANGED <<is_active, game_session, performance_tracker,
                            coordinate_label, time_left, duration>>]_vars
    /\ [](flip_perspective(flip_perspective(board)) = board)

C9_Witness ==
    /\ call.op = "flip_perspective"
    /\ ~board.is_white_perspective
    /\ board.current_coordinate = <<3, 4>>

(* C10: calculate_score is 0 whenever correct_clicks = 0, whatever the     *)
(* wrong clicks and the timing fields are.                                 *)
C10_ZeroScoreWithoutCorrect ==
    (/\ call.op \in {"GameSession.calculate_score", "GamePerformance.calculate_score"}
     /\ game_session.correct_clicks = 0) => ret = 0

C10_Witness ==
    /\ call.op = "GameSession.calculate_score"
    /\ game_session.correct_clicks = 0
    /\ game_session.wrong_clicks = MaxCount
    /\ game_session.total_response_time = MaxTime * TicksPerSecond
    /\ game_session.fastest_response = 0
    /\ ret = 0

(* 100*c + 100*c*c/(c+w) + max(0, 500 - 100*T/c) - 50*w for the session s, *)
(* T in seconds, as the fraction ScoreNum(s) / ScoreDen(s)                 *)
ScoreDen(s) == s.correct_clicks * (s.correct_clicks + s.wrong_clicks) * TicksPerSecond

ScoreNum(s) ==
    LET c == s.correct_clicks
        w == s.wrong_clicks
        T == s.total_response_time
        speed == IF 500 * c * TicksPerSecond >= 100 * T
                 THEN (500 * c * TicksPerSecond - 100 * T) * (c + w)
                 ELSE 0
    IN  100 * c * ScoreDen(s) + 100 * c * c * c * TicksPerSecond + speed
        - 50 * w * ScoreDen(s)

ScoreCalls == {"GameSession.calculate_score", "GamePerformance.calculate_score"}

(* C11 as stated: for correct_clicks > 0 calculate_score returns the       *)
(* mathematical floor of the score formula, also when the value is         *)
(* negative and not an integer.                                            *)
C11_ScoreIsFloor ==
    (call.op \in ScoreCalls /\ game_session.correct_clicks > 0) =>
        /\ ret * ScoreDen(game_session) <= ScoreNum(game_session)
        /\ ScoreNum(game_session) < (ret + 1) * ScoreDen(game_session)

(* C11, amended: for correct_clicks > 0 calculate_score returns the value  *)
(* of the score formula truncated toward zero: its floor when the value is *)
(* not negative, its ceiling when it is negative.                          *)
C11_ScoreIsTruncation ==
    (call.op \in ScoreCalls /\ game_session.correct_clicks > 0) =>
        IF ScoreNum(game_session) >= 0
        THEN /\ ret * ScoreDen(game_session) <= ScoreNum(game_session)
             /\ ScoreNum(game_session) < (ret + 1) * ScoreDen(game_session)
        ELSE /\ (ret - 1) * ScoreDen(game_session) < ScoreNum(game_session)
             /\ ScoreNum(game_session) <= ret * ScoreDen(game_session)

(* 1 correct and 5 wrong clicks in 4 seconds: -33.33 is returned as -33 *)
C11_Witness ==
    /\ call.op = "GameSession.calculate_score"
    /\ game_session.correct_clicks = 1
    /\ game_session.wrong_clicks = 5
    /\ game_session.total_response_time = 4 * TicksPerSecond
    /\ ret = -33

(* the session scored last, with other wrong clicks and response time *)
Other(w2, T2) ==
    [game_session EXCEPT !.wrong_clicks = w2, !.total_response_time = T2]

(* C12: of two sessions with the same correct_clicks > 0, the one with     *)
(* strictly more wrong clicks and a total response time that is not        *)
(* smaller has the strictly lower calculate_score.                         *)
C12_MoreWrongScoresLower ==
    (call.op = "GameSession.calculate_score" /\ game_session.correct_clicks > 0) =>
        \A w2 \in 0 .. MaxCount, T2 \in ResponseTimes :
            (/\ w2 > game_session.wrong_clicks
             /\ T2 >= game_session.total_response_time)
                => calculate_score(Other(w2, T2)) < ret

(* 5 correct clicks in 5 seconds score 1400; with 5 wrong clicks more and  *)
(* 6 seconds the score is 880                                              *)
C12_Witness ==
    /\ call.op = "GameSession.calculate_score"
    /\ game_session.correct_clicks = 5
    /\ game_session.wrong_clicks = 0
    /\ game_session.total_response_time = 5 * TicksPerSecond
    /\ ret = 1400
    /\ calculate_score(Other(5, 6 * TicksPerSecond)) = 880

(* C13 as stated: of two sessions with equal correct_clicks > 0 and equal  *)
(* wrong_clicks, the one with the smaller total_response_time never has    *)
(* the lower score, and has the strictly higher one whenever its average   *)
(* response time is below 5 seconds and the averages differ by at least    *)
(* 1 second.                                                               *)
C13_FasterScoresHigher ==
    (call.op = "GameSession.calculate_score" /\ game_session.correct_clicks > 0) =>
        LET c == game_session.correct_clicks
            T == game_session.total_response_time
        IN  \A T2 \in ResponseTimes :
                T < T2 =>
                    /\ calculate_score(Other(game_session.wrong_clicks, T2)) <= ret
                    /\ (/\ T < 5 * c * TicksPerSecond
                        /\ T2 - T >= c * TicksPerSecond)
                           => calculate_score(Other(game_session.wrong_clicks, T2)) < ret

(* C13, amended: the faster session never has the lower score, and has the *)
(* strictly higher one whenever its average response time is at most 4.98  *)
(* seconds, so that its speed bonus is at least 2 points, and the averages *)
(* differ by at least 1 second.                                            *)
C13_FasterScoresHigherByTwoPoints ==
    (call.op = "GameSession.calculate_score" /\ game_session.correct_clicks > 0) =>
        LET c == game_session.correct_clicks
            T == game_session.total_response_time
        IN  \A T2 \in ResponseTimes :
                T < T2 =>
                    /\ calculate_score(Other(game_session.wrong_clicks, T2)) <= ret
                    /\ (/\ 100 * T <= 498 * c * TicksPerSecond
                        /\ T2 - T >= c * TicksPerSecond)
                           => calculate_score(Other(game_session.wrong_clicks, T2)) < ret

(* 1 correct click in 4 seconds scores 300, in 5 seconds 200 *)
C13_Witness ==
    /\ call.op = "GameSession.calculate_score"
    /\ game_session.correct_clicks = 1
    /\ game_session.wrong_clicks = 0
    /\ game_session.total_response_time = 4 * TicksPerSecond
    /\ ret = 300
    /\ calculate_score(Other(0, 5 * TicksPerSecond)) = 200

RecordAttemptCalls == {"record_attempt", "GamePerformance.record_attempt"}

(* C14: record_attempt(False, t), for any response time t, adds exactly 1  *)
(* to wrong_clicks and leaves correct_clicks, total_response_time,         *)
(* fastest_response and slowest_response as they were.                     *)
C14_WrongAttemptCountsOnly ==
    [][(call'.op \in RecordAttemptCalls /\ ~call'.correct) =>
          /\ game_session'.wrong_clicks = game_session.wrong_clicks + 1
          /\ game_session'.correct_clicks = game_session.correct_clicks
          /\ game_session'.total_response_time = game_session.total_response_time
          /\ game_session'.fastest_response = game_session.fastest_response
          /\ game_session'.slowest_response = game_session.slowest_response
          /\ DOMAIN game_session' = DOMAIN game_session]_vars

(* a wrong attempt with a response time of 2 ticks recorded after a        *)
(* correct one of 1 tick                                                   *)
C14_Witness ==
    /\ call = [op |-> "record_attempt", correct |-> FALSE, response_time |-> 2]
    /\ game_session = [correct_clicks |-> 1, wrong_clicks |-> 1,
                       total_response_time |-> 1, fastest_response |-> 1,
                       slowest_response |-> 1]

(* the recorded attempts that were correct (TRUE) or wrong (FALSE), and    *)
(* the response times of the correct ones                                  *)
Recorded(correct) == {a \in BagToSet(attempts) : a[1] = correct}

CorrectTimes == {a[2] : a \in Recorded(TRUE)}

RECURSIVE NumberOf(_)
NumberOf(S) ==
    IF S = {} THEN 0
    ELSE LET a == CHOOSE x \in S : TRUE
         IN  CopiesIn(a, attempts) + NumberOf(S \ {a})

RECURSIVE TimeOf(_)
TimeOf(S) ==
    IF S = {} THEN 0
    ELSE LET a == CHOOSE x \in S : TRUE
         IN  CopiesIn(a, attempts) * a[2] + TimeOf(S \ {a})

(* C15: after reset and any sequence of record_attempt calls the counters  *)
(* are the numbers of correct and of wrong attempts, total_response_time   *)
(* is the sum of the correct attempts' response times, fastest_response    *)
(* their minimum and slowest_response their maximum; get_session_stats     *)
(* then reports accuracy = correct / (correct + wrong) * 100 and           *)
(* avg_time = total_response_time / correct.                               *)
C15_SessionSummarisesAttempts ==
    /\ game_session.correct_clicks = NumberOf(Recorded(TRUE))
    /\ game_session.wrong_clicks = NumberOf(Recorded(FALSE))
    /\ game_session.total_response_time = TimeOf(Recorded(TRUE))
    /\ CorrectTimes # {} =>
          /\ game_session.fastest_response \in CorrectTimes
          /\ \A t \in CorrectTimes : game_session.fastest_response <= t
          /\ game_session.slowest_response \in CorrectTimes
          /\ \A t \in CorrectTimes : t <= game_session.slowest_response
    /\ call.op = "get_session_stats" =>
          LET correct == NumberOf(Recorded(TRUE))
              wrong == NumberOf(Recorded(FALSE))
          IN  /\ ret.correct = correct
              /\ ret.wrong = wrong
              /\ correct + wrong > 0 =>
                    ret.accuracy[1] * (correct + wrong) = ret.accuracy[2] * correct * 100
              /\ correct > 0 =>
                    ret.avg_time[1] * correct = ret.avg_time[2] * TimeOf(Recorded(TRUE))

(* the summary of two correct attempts of 2 and 1 ticks and a wrong one:   *)
(* accuracy 66.67, average 1.5 ticks                                       *)
C15_Witness ==
    /\ call.op = "get_session_stats"
    /\ attempts = SetToBag({<<TRUE, 2>>, <<TRUE, 1>>, <<FALSE, 0>>})
    /\ ret.correct = 2
    /\ ret.wrong = 1
    /\ ret.accuracy = <<200, 3>>
    /\ ret.avg_time = <<3, 2>>
    /\ ret.fastest_response = 1
    /\ ret.slowest_response = 2

(* C16: in every state reached through reset and record_attempt with       *)
(* non-negative response times, fastest_response <= slowest_response when  *)
(* correct_clicks > 0, and when correct_clicks = 0 fastest_response is the *)
(* +infinity sentinel, slowest_response is 0 and total_response_time is 0. *)
C16_FastestNotAboveSlowest ==
    /\ game_session.correct_clicks > 0 =>
          game_session.fastest_response <= game_session.slowest_response
    /\ game_session.correct_clicks = 0 =>
          /\ game_session.fastest_response = Inf
          /\ game_session.slowest_response = 0
          /\ game_session.total_response_time = 0

(* two correct attempts of different response times, after wrong ones *)
C16_Witness ==
    /\ call.op = "record_attempt"
    /\ game_session.correct_clicks = 2
    /\ game_session.wrong_clicks = 1
    /\ game_session.fastest_response = 0
    /\ game_session.slowest_response = 2

Last(q) == q[Len(q)]

(* the float n/d lies in [0, 100] *)
IsPercentage(f) == f[1] >= 0 /\ f[2] > 0 /\ f[1] <= 100 * f[2]

(* C17: the summary of get_session_stats and the entry record_session      *)
(* appends never hold the +infinity sentinel: for a session without a      *)
(* correct attempt they hold fastest_response = 0 and an average response  *)
(* time of 0, for one without attempts an accuracy of 0, and the accuracy  *)
(* always lies in [0, 100].                                                *)
C17_NoInfinityReported ==
    call.op = "record_session" =>
        LET session == call.session
            t == performance_tracker
        IN  /\ ret.fastest_response # Inf
            /\ ret.slowest_response # Inf
            /\ ret.score # Inf
            /\ ret.avg_time[1] # Inf
            /\ IsPercentage(ret.accuracy)
            /\ Last(t.fastest_time_history) # Inf
            /\ Last(t.slowest_time_history) # Inf
            /\ Last(t.score_history) # Inf
            /\ Last(t.avg_time_history)[1] # Inf
            /\ IsPercentage(Last(t.accuracy_history))
            /\ session.correct_clicks = 0 =>
                  /\ ret.fastest_response = 0
                  /\ ret.avg_time[1] = 0
                  /\ Last(t.fastest_time_history) = 0
                  /\ Last(t.avg_time_history)[1] = 0
            /\ session.correct_clicks + session.wrong_clicks = 0 =>
                  /\ ret.accuracy[1] = 0
                  /\ Last(t.accuracy_history)[1] = 0

(* a session with one wrong and no correct attempt, whose fastest_response *)
(* is still the sentinel, has been summarised and recorded                 *)
C17_Witness ==
    /\ call.op = "record_session"
    /\ call.session.correct_clicks = 0
    /\ call.session.wrong_clicks = 1
    /\ call.session.fastest_response = Inf
    /\ ret.fastest_response = 0
    /\ ret.accuracy = <<0, 1>>
    /\ Last(performance_tracker.fastest_time_history) = 0
    /\ Len(performance_tracker.score_history) = 2

(* C18: after any sequence of record_session, save_statistics and          *)
(* load_statistics calls, successful or failed, the seven history lists    *)
(* have the same length.                                                   *)
C18_HistoriesSameLength ==
    \A f \in HistoryFields :
        Len(performance_tracker[f]) = Len(performance_tracker.score_history)

(* the seven lists of the tracker t are those of the dictionary *)
HoldsListsOf(t, stats_data) ==
    \A f \in HistoryFields : f \in DOMAIN stats_data /\ t[f] = stats_data[f]

(* C19: load_statistics is all-or-nothing: either it replaces all seven    *)
(* history lists with the lists of the file, or it fails, reports an error *)
(* and leaves all seven lists as they were before the call.                *)
C19_LoadIsAllOrNothing ==
    [][call'.op = "load_statistics" =>
          \/ /\ call'.raised = NoException
             /\ disk.kind = "object"
             /\ HoldsListsOf(performance_tracker', json_load(disk))
          \/ /\ call'.raised # NoException
             /\ performance_tracker' = performance_tracker]_vars

(* C20: load_statistics of the file that save_statistics wrote succeeds    *)
(* and leaves the seven history lists as they were when the file was       *)
(* written, whatever lists the tracker holds when it loads.                *)
C20_SaveLoadRoundTrip ==
    [][(call'.op = "load_statistics" /\ saved # None) =>
          /\ call'.raised = NoException
          /\ performance_tracker' = saved]_vars

(* the file was written when the tracker held the earlier history, of the *)
(* score -33, and one session more; it was loaded by a tracker that held   *)
(* one session                                                             *)
C20_Witness ==
    /\ call.op = "load_statistics"
    /\ saved # None
    /\ Len(saved.score_history) = 2
    /\ saved.score_history[1] = -33
    /\ call.held = 1
    /\ performance_tracker = saved

(* C28: whenever the trainer's game is active a target coordinate is set:  *)
(* is_active implies that current_coordinate is a cell of the board, not   *)
(* None, after every handler of ChessTrainer.                              *)
C28_ActiveHasTarget ==
    is_active => board.current_coordinate \in Cells

(* an active session whose first target was hit and replaced by a new one *)
C28_Witness ==
    /\ is_active
    /\ call.op = "handle_board_click"
    /\ game_session.correct_clicks = 1
    /\ board.current_coordinate \in Cells

(* C22: ending a session clears the target, so that in every idle state    *)
(* no target coordinate is set: not is_active implies current_coordinate   *)
(* is None.                                                                *)
C22_IdleHasNoTarget ==
    ~is_active => board.current_coordinate = None

(* C27: at most one countdown callback is pending at any time: a start     *)
(* while a countdown is queued never leaves two callback chains, so the    *)
(* number of queued update_timer callbacks never exceeds one.              *)
C27_OneCountdownPending ==
    pending <= 1

(* a click handled in the running session: attempts, the record of the     *)
(* handler's validate_click result, tells the click that validated from    *)
(* the one that did not                                                    *)
ValidatingClick ==
    /\ call'.op = "handle_board_click"
    /\ is_active
    /\ CopiesIn(<<TRUE, now - last_coordinate_time>>, attempts')
           = CopiesIn(<<TRUE, now - last_coordinate_time>>, attempts) + 1

NonValidatingClick ==
    /\ call'.op = "handle_board_click"
    /\ is_active
    /\ CopiesIn(<<FALSE, 0>>, attempts') = CopiesIn(<<FALSE, 0>>, attempts) + 1

(* C26: while a session is active every board click changes exactly one    *)
(* counter.  A click that validates adds one to correct_clicks, adds the   *)
(* time since the target was shown to total_response_time, draws a new     *)
(* target and sets last_coordinate_time to the time of the click, and      *)
(* leaves wrong_clicks and the perspective alone.  A click that does not   *)
(* validate adds one to wrong_clicks and leaves correct_clicks, the        *)
(* target, the perspective, last_coordinate_time, total_response_time and  *)
(* the fastest and slowest response unchanged.                             *)
C26_ClickChangesOneCounter ==
    [][ /\ ValidatingClick =>
              /\ game_session'.correct_clicks = game_session.correct_clicks + 1
              /\ game_session'.wrong_clicks = game_session.wrong_clicks
              /\ game_session'.total_response_time =
                     game_session.total_response_time + (now - last_coordinate_time)
              /\ board'.current_coordinate \in Cells
              /\ board'.is_white_perspective = board.is_white_perspective
              /\ last_coordinate_time' = now
        /\ NonValidatingClick =>
              /\ game_session'.wrong_clicks = game_session.wrong_clicks + 1
              /\ game_session'.correct_clicks = game_session.correct_clicks
              /\ game_session'.total_response_time = game_session.total_response_time
              /\ game_session'.fastest_response = game_session.fastest_response
              /\ game_session'.slowest_response = game_session.slowest_response
              /\ UNCHANGED <<board, last_coordinate_time>>
      ]_vars

(* a session in which the target was hit one tick after it was shown and   *)
(* the next click missed                                                   *)
C26_Witness ==
    /\ is_active
    /\ call.op = "handle_board_click"
    /\ game_session.correct_clicks = 1
    /\ game_session.wrong_clicks = 1
    /\ game_session.total_response_time = 1
    /\ last_coordinate_time = 1

(* C29: the three score functions agree.  On the same correct_clicks,      *)
(* wrong_clicks and total_response_time, GamePerformance.calculate_score   *)
(* and ChessCoordinatesGame.calculate_score return the value that          *)
(* GameSession.calculate_score returns.                                    *)
C29_ScoreFunctionsAgree ==
    /\ call.op = "GamePerformance.calculate_score" =>
           ret = calculate_score(game_session)
    /\ call.op = "ChessCoordinatesGame.calculate_score" =>
           /\ ret = calculate_score(game_session)
           /\ ret = performance_calculate_score(game_session)

(* ChessCoordinatesGame.calculate_score on three hits and two misses in    *)
(* 767 ticks: a score with a penalty and a fractional speed bonus          *)
C29_Witness ==
    /\ call.op = "ChessCoordinatesGame.calculate_score"
    /\ game_session.correct_clicks = 3
    /\ game_session.wrong_clicks = 2
    /\ game_session.total_response_time = 3 * TicksPerSecond - 1
    /\ ret = calculate_score(game_session)
    /\ ret > 0

(* the list q2 is q with one entry added at its end *)
Appended(q, q2) == Len(q2) = Len(q) + 1 /\ SubSeq(q2, 1, Len(q)) = q

PlayOps == {"start_game", "handle_board_click", "flip_board", "update_timer"}

(* C21: the history is append-only during play.  A start, click, flip or   *)
(* timer step either leaves all seven history lists as they are or adds    *)
(* one entry at the end of every one of them and leaves the earlier        *)
(* entries unchanged; a step that makes a history list shorter is a step   *)
(* of load_statistics or unload_statistics.                                *)
C21_HistoryAppendOnly ==
    [][ /\ call'.op \in PlayOps =>
              \/ performance_tracker' = performance_tracker
              \/ \A f \in HistoryFields :
                     Appended(performance_tracker[f], performance_tracker'[f])
        /\ (\E f \in HistoryFields :
                Len(performance_tracker'[f]) < Len(performance_tracker[f]))
               => call'.op \in {"load_statistics", "unload_statistics"}
      ]_vars

(* the second session has just been finalized by its last timer callback:  *)
(* its entry, of a session without clicks, follows the entry of a session  *)
(* with one correct click                                                  *)
C21_Witness ==
    /\ call.op = "update_timer"
    /\ ~is_active
    /\ Len(performance_tracker.score_history) = 2
    /\ performance_tracker.correct_clicks_history = <<1, 0>>
    /\ performance_tracker.score_history[1] > 0
    /\ performance_tracker.score_history[2] = 0

C24_UnloadEmptiesHistory ==
    (call.op = "unload_statistics" /\ call.confirmed) =>
        /\ \A f \in HistoryFields : performance_tracker[f] = <<>>
        /\ SessionIsReset

(* C25: every session terminates.  Under fair delivery of the queued timer *)
(* callbacks and finitely many starts, whenever the game is active it is   *)
(* idle again at some later time, whatever clicks and flips come between   *)
(* the callbacks.                                                          *)
C25_SessionEnds ==
    is_active ~> ~is_active

(* a session that has ended by its last callback after a correct click and *)
(* a flip of the board                                                     *)
C25_Witness ==
    /\ ~is_active
    /\ call.op = "update_timer"
    /\ fired = duration
    /\ pending = 0
    /\ game_session.correct_clicks = 1
    /\ ~board.is_white_perspective

(* C30: the history entry that show_final_results appends is the entry of  *)
(* the counters as they were when the countdown expired: after every run   *)
(* of show_final_results the last value of each of the seven history lists *)
(* is the value computed from those counters, whatever Start presses and   *)
(* clicks came in between.                                                 *)
C30_EntryIsOfExpiredSession ==
    call.op = "show_final_results" =>
        \A f \in HistoryFields :
            Last(performance_tracker[f]) = final_results(call.expired)[f]

====
